---- MODULE Spec2Model ----
(***************************************************************************)
(* Model of src/geometries/ellipse.js (melonJS Ellipse shape).             *)
(*                                                                         *)
(* Every `number` of the program is an ECMAScript Number, i.e. an IEEE-754 *)
(* binary64 value.  The arithmetic operators of the source ( / * + - <= ,   *)
(* Math.max ) are modelled with their binary64 meaning: the exact result   *)
(* rounded to 53 significant bits, ties to even, with NaN, the infinities  *)
(* and the signed zeros.  Significands do not fit TLC's 32-bit integers,   *)
(* so they are kept as little-endian sequences of 15-bit limbs.            *)
(***************************************************************************)
EXTENDS Integers, Sequences, FiniteSets, TLC

(***************************************************************************)
(* Natural numbers of arbitrary size: <<>> is 0, limb i has weight         *)
(* Base^(i-1), the last limb is never 0.                                   *)
(***************************************************************************)
LimbBits == 15

Base == 2^LimbBits

RECURSIVE BTrim(_)
BTrim(a) ==
    IF a = <<>> THEN <<>>
    ELSE IF a[Len(a)] = 0 THEN BTrim(SubSeq(a, 1, Len(a) - 1))
    ELSE a

RECURSIVE BFromInt(_)
BFromInt(n) ==
    IF n = 0 THEN <<>> ELSE <<n % Base>> \o BFromInt(n \div Base)

RECURSIVE BCmpFrom(_, _, _)
BCmpFrom(a, b, i) ==
    IF i = 0 THEN 0
    ELSE IF a[i] < b[i] THEN -1
    ELSE IF a[i] > b[i] THEN 1
    ELSE BCmpFrom(a, b, i - 1)

\* -1, 0, 1 as a < b, a = b, a > b
BCmp(a, b) ==
    IF Len(a) < Len(b) THEN -1
    ELSE IF Len(a) > Len(b) THEN 1
    ELSE BCmpFrom(a, b, Len(a))

Limb(a, i) == IF i <= Len(a) THEN a[i] ELSE 0

RECURSIVE BAddFrom(_, _, _, _)
BAddFrom(a, b, i, carry) ==
    IF i > Len(a) /\ i > Len(b)
    THEN (IF carry = 0 THEN <<>> ELSE <<carry>>)
    ELSE LET s == Limb(a, i) + Limb(b, i) + carry
         IN  <<s % Base>> \o BAddFrom(a, b, i + 1, s \div Base)

BAdd(a, b) == BAddFrom(a, b, 1, 0)

RECURSIVE BSubFrom(_, _, _, _)
BSubFrom(a, b, i, borrow) ==
    IF i > Len(a) THEN <<>>
    ELSE LET d == a[i] - Limb(b, i) - borrow
         IN  IF d < 0 THEN <<d + Base>> \o BSubFrom(a, b, i + 1, 1)
             ELSE <<d>> \o BSubFrom(a, b, i + 1, 0)

\* a - b, for a >= b
BSub(a, b) == BTrim(BSubFrom(a, b, 1, 0))

RECURSIVE BMulSmallFrom(_, _, _, _)
BMulSmallFrom(a, k, i, carry) ==
    IF i > Len(a)
    THEN (IF carry = 0 THEN <<>> ELSE <<carry>>)
    ELSE LET p == a[i] * k + carry
         IN  <<p % Base>> \o BMulSmallFrom(a, k, i + 1, p \div Base)

\* a * k, for 0 <= k < Base
BMulSmall(a, k) == IF k = 0 THEN <<>> ELSE BMulSmallFrom(a, k, 1, 0)

RECURSIVE BMulFrom(_, _, _)
BMulFrom(a, b, i) ==
    IF i > Len(b) THEN <<>>
    ELSE BAdd(BMulSmall(a, b[i]),
              LET rest == BMulFrom(a, b, i + 1)
              IN  IF rest = <<>> THEN <<>> ELSE <<0>> \o rest)

BMul(a, b) == IF a = <<>> \/ b = <<>> THEN <<>> ELSE BMulFrom(a, b, 1)

Zeros(n) == [i \in 1..n |-> 0]

\* a * 2^n
BShl(a, n) ==
    IF a = <<>> THEN <<>>
    ELSE Zeros(n \div LimbBits) \o BMulSmall(a, 2^(n % LimbBits))

RECURSIVE BDivSmallFrom(_, _, _, _)
BDivSmallFrom(a, k, i, rem) ==
    IF i = 0 THEN <<>>
    ELSE LET cur == rem * Base + a[i]
         IN  BDivSmallFrom(a, k, i - 1, cur % k) \o <<cur \div k>>

\* floor(a / 2^n)
BShr(a, n) ==
    LET whole == n \div LimbBits
        part  == n % LimbBits
    IN  IF whole >= Len(a) THEN <<>>
        ELSE LET hi == SubSeq(a, whole + 1, Len(a))
             IN  BTrim(BDivSmallFrom(hi, 2^part, Len(hi), 0))

RECURSIVE IntBitLen(_)
IntBitLen(n) == IF n = 0 THEN 0 ELSE 1 + IntBitLen(n \div 2)

BBitLen(a) ==
    IF a = <<>> THEN 0 ELSE (Len(a) - 1) * LimbBits + IntBitLen(a[Len(a)])

\* bit i of a, bit 0 being the least significant
BBit(a, i) ==
    LET l == Limb(a, (i \div LimbBits) + 1)
    IN  (l \div 2^(i % LimbBits)) % 2

RECURSIVE IntTrailingZeros(_)
IntTrailingZeros(n) == IF n % 2 = 1 THEN 0 ELSE 1 + IntTrailingZeros(n \div 2)

RECURSIVE BTrailingZerosFrom(_, _)
BTrailingZerosFrom(a, i) ==
    IF a[i] = 0 THEN LimbBits + BTrailingZerosFrom(a, i + 1)
    ELSE IntTrailingZeros(a[i])

\* number of low zero bits of a > 0
BTrailingZeros(a) == BTrailingZerosFrom(a, 1)

\* the quotient q2 and the remainder r2 after a bit was brought down: d is
\* taken off the remainder when it fits
BDivFit(d, q2, r2) ==
    IF BCmp(r2, d) >= 0 THEN <<BAdd(q2, <<1>>), BSub(r2, d)>> ELSE <<q2, r2>>

\* one step of long division: bit i of n is brought down into the remainder
BDivStep(n, d, i, qr) ==
    BDivFit(d, BMulSmall(qr[1], 2), BAdd(BMulSmall(qr[2], 2), BFromInt(BBit(n, i))))

RECURSIVE BDivBits(_, _, _, _, _)
\* long division over the bits hi down to lo of n, from <<quotient, remainder>>
\* (the range is halved instead of walked, which keeps the evaluation shallow)
BDivBits(n, d, hi, lo, qr) ==
    IF hi < lo THEN qr
    ELSE IF hi = lo THEN BDivStep(n, d, hi, qr)
    ELSE LET mid  == (hi + lo + 1) \div 2
             high == BDivBits(n, d, hi, mid, qr)
         IN  IF Len(high[1]) >= 0 /\ Len(high[2]) >= 0
             THEN BDivBits(n, d, mid - 1, lo, high)
             ELSE high

RECURSIVE BModSmallFrom(_, _, _, _)
BModSmallFrom(a, k, i, rem) ==
    IF i = 0 THEN rem ELSE BModSmallFrom(a, k, i - 1, (rem * Base + a[i]) % k)

\* <<floor(n / d), n mod d>>, for d > 0; a divisor of one limb is divided by
\* limb by limb
BDivMod(n, d) ==
    IF Len(d) = 1
    THEN <<BTrim(BDivSmallFrom(n, d[1], Len(n), 0)),
           BFromInt(BModSmallFrom(n, d[1], Len(n), 0))>>
    ELSE BDivBits(n, d, BBitLen(n) - 1, 0, <<<<>>, <<>>>>)

(***************************************************************************)
(* ECMAScript Number values.  A finite value is (-1)^s * m * 2^e with m    *)
(* odd (or m = 0, e = 0), so that equal values are equal records; `k` is   *)
(* "num", "inf" or "nan".                                                  *)
(***************************************************************************)
Precision == 53

MaxExp == 1024

MinExp == -1074

NaN == [k |-> "nan", s |-> 0, m |-> <<>>, e |-> 0]

Inf(s) == [k |-> "inf", s |-> s, m |-> <<>>, e |-> 0]

Zero(s) == [k |-> "num", s |-> s, m |-> <<>>, e |-> 0]

Max2(a, b) == IF a >= b THEN a ELSE b

Min2(a, b) == IF a <= b THEN a ELSE b

\* the exact value (-1)^s * m * 2^e, in canonical form
Num(s, m, e) ==
    IF m = <<>> THEN Zero(s)
    ELSE LET tz == BTrailingZeros(m)
         IN  [k |-> "num", s |-> s, m |-> BShr(m, tz), e |-> e + tz]

\* (-1)^s * m * 2^e, m of at most Precision bits: infinite when too large
Overflow(s, m, e) ==
    IF BBitLen(m) + e > MaxExp THEN Inf(s) ELSE Num(s, m, e)

\* q is m without its `drop` low bits: one is added when the bits dropped
\* are more than half a unit, or half a unit and q is odd
RoundUp(m, drop, q) ==
    LET half   == BBit(m, drop - 1) = 1
        sticky == BTrailingZeros(m) < drop - 1
    IN  IF half /\ (sticky \/ BBit(q, 0) = 1) THEN BAdd(q, <<1>>) ELSE q

\* (-1)^s * m * 2^e rounded by dropping the `drop` low bits of m
RoundDrop(s, m, e, drop) ==
    IF m = <<>> THEN Zero(s)
    ELSE IF drop <= 0 THEN Overflow(s, m, e)
    ELSE Overflow(s, RoundUp(m, drop, BShr(m, drop)), e + drop)

\* (-1)^s * m * 2^e rounded to the nearest binary64 value, ties to even
Round(s, m, e) == RoundDrop(s, m, e, Max2(BBitLen(m) - Precision, MinExp - e))

\* Round of a triple <<s, m, e>>
RoundExact(x) == Round(x[1], x[2], x[3])

FromInt(n) == IF n < 0 THEN Num(1, BFromInt(-n), 0) ELSE Num(0, BFromInt(n), 0)

IsNaN(a) == a.k = "nan"

IsZero(a) == a.k = "num" /\ a.m = <<>>

IsFinite(a) == a.k = "num"

FNeg(a) == IF IsNaN(a) THEN NaN ELSE [a EXCEPT !.s = 1 - a.s]

\* (-1)^sa * ma * 2^e + (-1)^sb * mb * 2^e, exactly: <<s, m, e>>
AlignedSum(sa, ma, sb, mb, e) ==
    LET c == BCmp(ma, mb)
    IN  IF sa = sb THEN <<sa, BAdd(ma, mb), e>>
        ELSE IF c = 0 THEN <<0, <<>>, 0>>
        ELSE IF c > 0 THEN <<sa, BSub(ma, mb), e>>
        ELSE <<sb, BSub(mb, ma), e>>

\* the exact sum of two finite values, before rounding: <<s, m, e>>
ExactSum(a, b) ==
    AlignedSum(a.s, BShl(a.m, a.e - Min2(a.e, b.e)),
               b.s, BShl(b.m, b.e - Min2(a.e, b.e)), Min2(a.e, b.e))

\* a + b
FAdd(a, b) ==
    IF IsNaN(a) \/ IsNaN(b) THEN NaN
    ELSE IF a.k = "inf" THEN (IF b.k = "inf" /\ b.s # a.s THEN NaN ELSE a)
    ELSE IF b.k = "inf" THEN b
    ELSE IF IsZero(a) /\ IsZero(b) THEN Zero(IF a.s = b.s THEN a.s ELSE 0)
    ELSE IF IsZero(a) THEN b
    ELSE IF IsZero(b) THEN a
    ELSE RoundExact(ExactSum(a, b))

\* a - b
FSub(a, b) == FAdd(a, FNeg(b))

\* a * b
FMul(a, b) ==
    LET s == (a.s + b.s) % 2
    IN  IF IsNaN(a) \/ IsNaN(b) THEN NaN
        ELSE IF a.k = "inf" \/ b.k = "inf"
        THEN (IF IsZero(a) \/ IsZero(b) THEN NaN ELSE Inf(s))
        ELSE IF IsZero(a) \/ IsZero(b) THEN Zero(s)
        ELSE Round(s, BMul(a.m, b.m), a.e + b.e)

\* the quotient qr[1] * 2^e with remainder qr[2], as a triple <<s, m, e>>
\* that rounds as the exact quotient does: a trailing 1 stands for a
\* remainder that is not 0
Quotient(s, qr, e) ==
    IF qr[2] = <<>> THEN <<s, qr[1], e>>
    ELSE <<s, BAdd(BMulSmall(qr[1], 2), <<1>>), e - 1>>

\* a.m * 2^shift is divided by b.m: Precision + 2 quotient bits at least
FDivShifted(a, b, s, shift) ==
    RoundExact(Quotient(s, BDivMod(BShl(a.m, shift), b.m), a.e - b.e - shift))

\* a / b
FDiv(a, b) ==
    LET s == (a.s + b.s) % 2
    IN  IF IsNaN(a) \/ IsNaN(b) THEN NaN
        ELSE IF a.k = "inf" THEN (IF b.k = "inf" THEN NaN ELSE Inf(s))
        ELSE IF b.k = "inf" THEN Zero(s)
        ELSE IF IsZero(b) THEN (IF IsZero(a) THEN NaN ELSE Inf(s))
        ELSE IF IsZero(a) THEN Zero(s)
        ELSE FDivShifted(a, b, s,
                         Max2(0, Precision + 2 + BBitLen(b.m) - BBitLen(a.m)))

\* -1, 0, 1 as a < b, a = b, a > b, for a and b not NaN
FCmp(a, b) ==
    LET sg(x) == IF IsZero(x) THEN 0 ELSE IF x.s = 0 THEN 1 ELSE -1
        mag(x, y) ==
            IF x.k = "inf" THEN (IF y.k = "inf" THEN 0 ELSE 1)
            ELSE IF y.k = "inf" THEN -1
            ELSE LET e == Min2(x.e, y.e)
                 IN  BCmp(BShl(x.m, x.e - e), BShl(y.m, y.e - e))
    IN  IF sg(a) # sg(b) THEN (IF sg(a) < sg(b) THEN -1 ELSE 1)
        ELSE IF sg(a) = 0 THEN 0
        ELSE sg(a) * mag(a, b)

\* a <= b
FLe(a, b) == ~IsNaN(a) /\ ~IsNaN(b) /\ FCmp(a, b) <= 0

\* a < b
FLt(a, b) == ~IsNaN(a) /\ ~IsNaN(b) /\ FCmp(a, b) < 0

\* a == b   (NaN differs from itself, +0 equals -0)
FEq(a, b) == ~IsNaN(a) /\ ~IsNaN(b) /\ FCmp(a, b) = 0

\* Math.max(a, b)
MathMax(a, b) ==
    IF IsNaN(a) \/ IsNaN(b) THEN NaN
    ELSE LET c == FCmp(a, b)
         IN  IF c > 0 THEN a
             ELSE IF c < 0 THEN b
             ELSE IF IsZero(a) /\ a.s # b.s THEN Zero(0)
             ELSE a

(***************************************************************************)
(* The collaborators of ellipse.js: Vector2d (math/vector2.js), Bounds and *)
(* the pool (system/pooling.js).                                           *)
(***************************************************************************)
Vec(x, y) == [x |-> x, y |-> y]

\* new Vector2d()
NewVector2d == Vec(Zero(0), Zero(0))

\* Vector2d.set(x, y)
VectorSet(v, x, y) == Vec(x, y)

\* Vector2d.scaleV(u): component-wise product
VectorScaleV(v, u) == Vec(FMul(v.x, u.x), FMul(v.y, u.y))

\* the angles rotate is called with
Angles == {"0", "PI/2"}

\* Math.cos(angle): Math.cos(Math.PI / 2) is 6.123233995736766e-17
Cos(angle) ==
    IF angle = "0" THEN FromInt(1) ELSE Num(0, <<23559, 26152, 6296, 141>>, -106)

\* Math.sin(angle)
Sin(angle) == IF angle = "0" THEN Zero(0) ELSE FromInt(1)

\* (x, y), relative to the pivot (cx, cy), turned by the angle of cosine c
\* and sine s
RotateAbout(x, y, c, s, cx, cy) ==
    Vec(FAdd(FSub(FMul(c, x), FMul(s, y)), cx),
        FAdd(FAdd(FMul(s, x), FMul(c, y)), cy))

\* Vector2d.rotate(angle, v): counter-clockwise about the pivot v (<<>> when
\* it is not given: the origin)
VectorRotate(p, angle, v) ==
    LET cx == IF v = <<>> THEN Zero(0) ELSE v[1].x
        cy == IF v = <<>> THEN Zero(0) ELSE v[1].y
    IN  RotateAbout(FSub(p.x, cx), FSub(p.y, cy), Cos(angle), Sin(angle), cx, cy)

\* a Bounds as the pool hands it out: empty
NewBounds == [min |-> Vec(Inf(0), Inf(0)), max |-> Vec(Inf(1), Inf(1))]

\* Bounds.setMinMax(minX, minY, maxX, maxY)
BoundsSetMinMax(b, minX, minY, maxX, maxY) ==
    [min |-> Vec(minX, minY), max |-> Vec(maxX, maxY)]

\* Bounds.translate(dx, dy)
BoundsTranslate(b, dx, dy) ==
    [min |-> Vec(FAdd(b.min.x, dx), FAdd(b.min.y, dy)),
     max |-> Vec(FAdd(b.max.x, dx), FAdd(b.max.y, dy))]

\* Bounds.shift(p): the top-left corner moves to p, the size is kept
BoundsShift(b, p) ==
    LET deltaX == FSub(b.max.x, b.min.x)
        deltaY == FSub(b.max.y, b.min.y)
    IN  [min |-> Vec(p.x, p.y), max |-> Vec(FAdd(p.x, deltaX), FAdd(p.y, deltaY))]

(***************************************************************************)
(* The heap.  A world W is [ell, heap, pulls]: ell maps the live Ellipse   *)
(* instances 1, 2, .. to their fields, heap is the sequence of the Bounds  *)
(* instances the pool has handed out (an instance is its index), and       *)
(* pulls[n] is the Ellipse that made the n-th call of pool.pull("Bounds"). *)
(***************************************************************************)
Undefined == 0

\* pool.pull("Bounds"), called by ellipse i
PoolPull(W, i) ==
    [W EXCEPT !.heap = Append(@, NewBounds), !.pulls = Append(@, i)]

\* the fields as the constructor initializes them
FreshEllipse ==
    [pos       |-> NewVector2d,
     bounds    |-> Undefined,
     radius    |-> NaN,
     radiusV   |-> NewVector2d,
     radiusSq  |-> NewVector2d,
     ratio     |-> NewVector2d,
     shapeType |-> "Ellipse"]

\* getBounds() without the cache: every call asks the pool
GetBoundsNoMemo(W, i) ==
    LET W1 == PoolPull(W, i)
    IN  [W1 EXCEPT !.ell[i].bounds = Len(W1.heap)]

\* Ellipse.getBounds(): the world after the call; the value returned is
\* then W.ell[i].bounds
GetBounds(W, i) ==
    IF W.ell[i].bounds = Undefined
    THEN LET W1 == PoolPull(W, i)
         IN  [W1 EXCEPT !.ell[i].bounds = Len(W1.heap)]
    ELSE W

\* the Bounds instance of ellipse i
BoundsOf(W, i) == W.heap[W.ell[i].bounds]

\* the smaller half instead of the larger
RadiusMin(hW, hH) == IF FLe(hW, hH) THEN hW ELSE hH

\* a radius kept from going below 0
RadiusClamped(hW, hH) == MathMax(MathMax(hW, hH), Zero(0))

\* this.radius = Math.max(hW, hH)
Radius(hW, hH) == MathMax(hW, hH)

\* this.ratio.set(hW / this.radius, hH / this.radius)
Ratio(hW, hH, radius) == Vec(FDiv(hW, radius), FDiv(hH, radius))

\* radiusV left at (radius, radius), the scaling by ratio dropped
RadiusVUnscaled(radius, ratio) == VectorSet(NewVector2d, radius, radius)

\* this.radiusV.set(this.radius, this.radius).scaleV(this.ratio)
RadiusV(radius, ratio) ==
    VectorScaleV(VectorSet(NewVector2d, radius, radius), ratio)

\* this.radiusSq.set(r, r).scaleV(this.ratio)
RadiusSqOf(r, ratio) == VectorScaleV(VectorSet(NewVector2d, r, r), ratio)

\* var r = this.radius * this.radius; this.radiusSq.set(r, r).scaleV(this.ratio)
RadiusSq(radius, ratio) == RadiusSqOf(FMul(radius, radius), ratio)

\* this.getBounds().setMinMax(x, y, x + w, x + h)
ShapeMinMax(b, x, y, w, h) == BoundsSetMinMax(b, x, y, FAdd(x, w), FAdd(x, h))

\* the statements of setShape on the fields e of the instance, hW and hH
\* being w / 2 and h / 2: this.pos.set(x, y)
SetPos(e, x, y) == [e EXCEPT !.pos = VectorSet(@, x, y)]

\* this.radius = Math.max(hW, hH)
SetRadius(e, hW, hH) == [e EXCEPT !.radius = Radius(hW, hH)]

\* this.ratio.set(hW / this.radius, hH / this.radius)
SetRatio(e, hW, hH) == [e EXCEPT !.ratio = Ratio(hW, hH, e.radius)]

\* this.radiusV.set(this.radius, this.radius).scaleV(this.ratio)
SetRadiusV(e) == [e EXCEPT !.radiusV = RadiusV(e.radius, e.ratio)]

\* var r = this.radius * this.radius; this.radiusSq.set(r, r).scaleV(this.ratio)
SetRadiusSq(e) == [e EXCEPT !.radiusSq = RadiusSq(e.radius, e.ratio)]

\* the fields of the instance after setShape(x, y, 2 * hW, 2 * hH)
ShapeFields(e, x, y, hW, hH) ==
    SetRadiusSq(SetRadiusV(SetRatio(SetRadius(SetPos(e, x, y), hW, hH), hW, hH)))

\* the Bounds instance of ellipse i becomes b
WithBounds(W, i, b) == [W EXCEPT !.heap[W.ell[i].bounds] = b]

\* setMinMax(x, y, x + w, x + h) on the bounds getBounds() returned
ShapeBounds(W, i, x, y, w, h) ==
    WithBounds(W, i, ShapeMinMax(BoundsOf(W, i), x, y, w, h))

\* translate(-this.radiusV.x, -this.radiusV.y) on the bounds getBounds()
\* returned
CentreBounds(W, i) ==
    WithBounds(W, i, BoundsTranslate(BoundsOf(W, i), FNeg(W.ell[i].radiusV.x),
                                                     FNeg(W.ell[i].radiusV.y)))

\* Ellipse.setShape(x, y, w, h) on ellipse i
SetShape(W, i, x, y, w, h) ==
    CentreBounds(
        GetBounds(
            ShapeBounds(
                GetBounds([W EXCEPT !.ell[i] = ShapeFields(@, x, y,
                                                           FDiv(w, FromInt(2)),
                                                           FDiv(h, FromInt(2)))],
                          i),
                i, x, y, w, h),
            i),
        i)

\* setShape(a[1], a[2], a[3], a[4])
SetShapeTo(W, i, a) == SetShape(W, i, a[1], a[2], a[3], a[4])

\* new Ellipse(x, y, w, h), as instance i
Construct(W, i, x, y, w, h) ==
    SetShape([W EXCEPT !.ell = (i :> FreshEllipse) @@ @], i, x, y, w, h)

\* new Ellipse(a[1], a[2], a[3], a[4]), as instance i
ConstructFrom(W, i, a) == Construct(W, i, a[1], a[2], a[3], a[4])

\* shift(this.pos) on the bounds getBounds() returned
ShiftBounds(W, i) ==
    WithBounds(W, i, BoundsShift(BoundsOf(W, i), W.ell[i].pos))

\* Ellipse.rotate(angle, v)
Rotate(W, i, angle, v) ==
    CentreBounds(
        GetBounds(
            ShiftBounds(
                GetBounds([W EXCEPT !.ell[i].pos = VectorRotate(@, angle, v)], i),
                i),
            i),
        i)

\* scale taking radiusV for the full width and height
ScaleShapeNoDouble(e, args) ==
    LET x == args[1]
        y == IF Len(args) >= 2 THEN args[2] ELSE x
    IN  <<e.pos.x, e.pos.y, FMul(e.radiusV.x, x), FMul(e.radiusV.y, y)>>

\* the <<x, y, w, h>> that scale(x, y) hands to setShape; args is <<x>> or
\* <<x, y>>, and a missing y is x
ScaleShape(e, args) ==
    LET x == args[1]
        y == IF Len(args) >= 2 THEN args[2] ELSE x
    IN  <<e.pos.x, e.pos.y,
          FMul(FMul(e.radiusV.x, FromInt(2)), x),
          FMul(FMul(e.radiusV.y, FromInt(2)), y)>>

\* Ellipse.scale(x, y)
Scale(W, i, args) == SetShapeTo(W, i, ScaleShape(W.ell[i], args))

\* Ellipse.scaleV(v)
ScaleV(W, i, v) == Scale(W, i, <<v.x, v.y>>)

\* the offset translate and contains are called with: arguments is
\* <<x, y>> or <<v>>, v a vector
ArgX(arguments) == IF Len(arguments) = 2 THEN arguments[1] ELSE arguments[1].x

ArgY(arguments) == IF Len(arguments) = 2 THEN arguments[2] ELSE arguments[1].y

\* translate(x, y) on the bounds getBounds() returned
TranslateBounds(W, i, x, y) ==
    WithBounds(W, i, BoundsTranslate(BoundsOf(W, i), x, y))

\* translate assigning the offset to pos instead of adding it
TranslateAssign(W, i, arguments) ==
    TranslateBounds(
        GetBounds([W EXCEPT !.ell[i].pos = Vec(ArgX(arguments), ArgY(arguments))], i),
        i, ArgX(arguments), ArgY(arguments))

\* translate moving pos and leaving the bounds behind
TranslatePosOnly(W, i, arguments) ==
    [W EXCEPT !.ell[i].pos = Vec(FAdd(@.x, ArgX(arguments)),
                                 FAdd(@.y, ArgY(arguments)))]

\* Ellipse.translate(x, y), Ellipse.translate(v)
Translate(W, i, arguments) ==
    TranslateBounds(
        GetBounds([W EXCEPT !.ell[i].pos = Vec(FAdd(@.x, ArgX(arguments)),
                                               FAdd(@.y, ArgY(arguments)))], i),
        i, ArgX(arguments), ArgY(arguments))

\* (x * x) / radiusSq.x + (y * y) / radiusSq.y <= 1.0, for x and y relative
\* to pos
InsideUnit(x, y, radiusSq) ==
    FLe(FAdd(FDiv(FMul(x, x), radiusSq.x), FDiv(FMul(y, y), radiusSq.y)),
        FromInt(1))

\* Ellipse.contains(x, y), Ellipse.contains(point)
Contains(e, arguments) ==
    InsideUnit(FSub(ArgX(arguments), e.pos.x), FSub(ArgY(arguments), e.pos.y),
               e.radiusSq)

\* the <<x, y, w, h>> that clone() hands to the constructor
CloneShape(e) ==
    <<e.pos.x, e.pos.y,
      FMul(e.radiusV.x, FromInt(2)), FMul(e.radiusV.y, FromInt(2))>>

\* a clone that is handed the bounds of the original
CloneSharingBounds(W, i, j) ==
    SetShapeTo([W EXCEPT !.ell = (j :> [FreshEllipse EXCEPT
                                           !.bounds = W.ell[i].bounds]) @@ @],
               j, CloneShape(W.ell[i]))

\* Ellipse.clone(): the clone of ellipse i becomes instance j
Clone(W, i, j) == ConstructFrom(W, j, CloneShape(W.ell[i]))

(***************************************************************************)
(* The state machine: one Ellipse is constructed, then its methods are     *)
(* called, on it and on its clones, at most MaxOps times.                  *)
(***************************************************************************)
MaxOps == 2

MaxEllipses == 2

\* the arguments the methods are called with
Xs == {FromInt(0), FromInt(1)}

Ys == {FromInt(0)}

Ws == {FromInt(-2), FromInt(0), FromInt(4), FromInt(7)}

Hs == {FromInt(-4), FromInt(2), FromInt(25)}

DXs == {FromInt(-8), FromInt(8)}

DYs == {FromInt(-1), FromInt(1)}

ScaleArgs == {<<FromInt(2)>>, <<FromInt(3)>>, <<FromInt(2), FromInt(3)>>}

ScaleVectors == {Vec(FromInt(2), FromInt(3))}

Pivots == {<<>>, <<Vec(FromInt(1), FromInt(1))>>}

\* 1.0001
OneAndABit == Num(0, <<11377, 14103, 419, 128>>, -52)

PXs == {FromInt(0), FromInt(1)}

PYs == {FromInt(0), OneAndABit}

VARIABLES
    ell,    \* the live Ellipse instances
    heap,   \* the Bounds instances handed out by the pool
    pulls,  \* the calls of pool.pull("Bounds")
    last,   \* the last call: method, instance, arguments, result
    prev,   \* the call before it, when that was a translate or a scale
    steps   \* the number of calls made

vars == <<ell, heap, pulls, last, prev, steps>>

\* the program's own state
Cur == [ell |-> ell, heap |-> heap, pulls |-> pulls]

\* the methods whose call keeps the instance's fields from before (pre)
Tracked == {"translate", "scale", "scaleV"}

\* the methods that end in setShape
ShapeOps == {"new", "onResetEvent", "setShape", "scale", "scaleV", "clone"}

\* a call: op on instance who (clone: of instance src), with the numbers
\* args (a vector argument has form "vec"); shape is the <<x, y, w, h>> it
\* handed to setShape, result what contains returned, pre the instance and
\* its bounds before the call
Call(op, who, src, args, form, shape, result, pre) ==
    [op |-> op, who |-> who, src |-> src, args |-> args, form |-> form,
     shape |-> shape, result |-> result, pre |-> pre]

NoCall == Call("none", 0, 0, <<>>, "", <<>>, FALSE, <<>>)

Pre(i) == <<ell[i], BoundsOf(Cur, i)>>

\* the call returns, leaving the world W
Return(W, call) ==
    /\ ell' = W.ell
    /\ heap' = W.heap
    /\ pulls' = W.pulls
    /\ last' = call
    /\ prev' = IF last.op \in Tracked THEN last ELSE NoCall
    /\ steps' = steps + 1

\* the first call has returned, leaving the world W
Start(W, call) ==
    /\ ell = W.ell
    /\ heap = W.heap
    /\ pulls = W.pulls
    /\ last = call
    /\ prev = NoCall
    /\ steps = 0

Init ==
    \E x \in Xs, y \in Ys, w \in Ws, h \in Hs :
        Start(Construct([ell |-> <<>>, heap |-> <<>>, pulls |-> <<>>],
                        1, x, y, w, h),
              Call("new", 1, 0, <<>>, "", <<x, y, w, h>>, FALSE, <<>>))

OnResetEventOp ==
    \E i \in DOMAIN ell, x \in Xs, y \in Ys, w \in Ws, h \in Hs :
        /\ steps < MaxOps
        /\ Return(SetShape(Cur, i, x, y, w, h),
                  Call("onResetEvent", i, 0, <<>>, "", <<x, y, w, h>>, FALSE, <<>>))

SetShapeOp ==
    \E i \in DOMAIN ell, x \in Xs, y \in Ys, w \in Ws, h \in Hs :
        /\ steps < MaxOps
        /\ Return(SetShape(Cur, i, x, y, w, h),
                  Call("setShape", i, 0, <<>>, "", <<x, y, w, h>>, FALSE, <<>>))

RotateOp ==
    \E i \in DOMAIN ell, angle \in Angles, v \in Pivots :
        /\ steps < MaxOps
        /\ Return(Rotate(Cur, i, angle, v),
                  Call("rotate", i, 0, <<>>, "", <<>>, FALSE, <<>>))

ScaleOp ==
    \E i \in DOMAIN ell, args \in ScaleArgs :
        /\ steps < MaxOps
        /\ Return(Scale(Cur, i, args),
                  Call("scale", i, 0, args, "xy", ScaleShape(ell[i], args),
                       FALSE, Pre(i)))

ScaleVOp ==
    \E i \in DOMAIN ell, v \in ScaleVectors :
        /\ steps < MaxOps
        /\ Return(ScaleV(Cur, i, v),
                  Call("scaleV", i, 0, <<v.x, v.y>>, "vec",
                       ScaleShape(ell[i], <<v.x, v.y>>), FALSE, Pre(i)))

\* Ellipse.transform(m): returns this
TransformOp ==
    \E i \in DOMAIN ell :
        /\ steps < MaxOps
        /\ Return(Cur, Call("transform", i, 0, <<>>, "", <<>>, FALSE, <<>>))

TranslateOp ==
    \E i \in DOMAIN ell, x \in DXs, y \in DYs, form \in {"xy", "vec"} :
        /\ steps < MaxOps
        /\ Return(Translate(Cur, i, IF form = "xy" THEN <<x, y>> ELSE <<Vec(x, y)>>),
                  Call("translate", i, 0, <<x, y>>, form, <<>>, FALSE, Pre(i)))

ContainsOp ==
    \E i \in DOMAIN ell, x \in PXs, y \in PYs, form \in {"xy", "vec"} :
        /\ steps < MaxOps
        /\ Return(Cur,
                  Call("contains", i, 0, <<x, y>>, form, <<>>,
                       Contains(ell[i], IF form = "xy" THEN <<x, y>> ELSE <<Vec(x, y)>>),
                       <<>>))

GetBoundsOp ==
    \E i \in DOMAIN ell :
        /\ steps < MaxOps
        /\ Return(GetBounds(Cur, i),
                  Call("getBounds", i, 0, <<>>, "", <<>>, FALSE, <<>>))

CloneOp ==
    \E i \in DOMAIN ell :
        LET j == Cardinality(DOMAIN ell) + 1
        IN  /\ steps < MaxOps
            /\ j <= MaxEllipses
            /\ Return(Clone(Cur, i, j),
                      Call("clone", j, i, <<>>, "", CloneShape(ell[i]), FALSE, <<>>))

Next ==
    \/ OnResetEventOp
    \/ SetShapeOp
    \/ RotateOp
    \/ ScaleOp
    \/ ScaleVOp
    \/ TransformOp
    \/ TranslateOp
    \/ ContainsOp
    \/ GetBoundsOp
    \/ CloneOp

Spec == Init /\ [][Next]_vars

(***************************************************************************)
(* Vocabulary of the properties.  Magnitudes <<m, e>> stand for m * 2^e    *)
(* and are compared exactly, without rounding.                             *)
(***************************************************************************)
One == FromInt(1)

Two == FromInt(2)

\* the same value: equal numbers, or both NaN
Same(a, b) == FEq(a, b) \/ (IsNaN(a) /\ IsNaN(b))

SameVec(u, v) == Same(u.x, v.x) /\ Same(u.y, v.y)

SameBounds(b, c) == SameVec(b.min, c.min) /\ SameVec(b.max, c.max)

Mag(a) == <<a.m, a.e>>

MagAdd(p, q) ==
    LET e == Min2(p[2], q[2])
    IN  <<BAdd(BShl(p[1], p[2] - e), BShl(q[1], q[2] - e)), e>>

MagLe(p, q) ==
    LET e == Min2(p[2], q[2])
    IN  BCmp(BShl(p[1], p[2] - e), BShl(q[1], q[2] - e)) <= 0

\* |a - b|, exactly
Dist(a, b) == LET d == ExactSum(a, FNeg(b)) IN <<d[2], d[3]>>

\* a and b differ by at most 2^-k times the magnitude scale (non-finite
\* values: they are the same value)
Close(a, b, scale, k) ==
    IF IsFinite(a) /\ IsFinite(b)
    THEN MagLe(Dist(a, b), <<scale[1], scale[2] - k>>)
    ELSE Same(a, b)

\* a + b is a double: the sum in the code is not rounded
SumIsExact(a, b) ==
    /\ IsFinite(a)
    /\ IsFinite(b)
    /\ LET d == ExactSum(a, b) IN FEq(Num(d[1], d[2], d[3]), FAdd(a, b))

\* the last call ended in setShape(x, y, w, h): its arguments and the
\* instance it left
ShapeSet == last.op \in ShapeOps

SX == last.shape[1]

SY == last.shape[2]

SW == last.shape[3]

SH == last.shape[4]

Self == ell[last.who]

SelfBounds == BoundsOf(Cur, last.who)

PositiveShape == ShapeSet /\ FLt(Zero(0), SW) /\ FLt(Zero(0), SH)

FiniteShape == ShapeSet /\ IsFinite(SW) /\ IsFinite(SH)

\* |x| + |y| + |w| + |h| of the shape
ShapeScale == MagAdd(MagAdd(Mag(SX), Mag(SY)), MagAdd(Mag(SW), Mag(SH)))

(***************************************************************************)
(* C1: after setShape(x, y, w, h) with w, h > 0 - by the constructor,      *)
(* onResetEvent, setShape, scale or clone, and for x different from y as   *)
(* well - the bounds is the box [pos - radiusV, pos + radiusV]: top-left   *)
(* (x - w/2, y - h/2), size (w, h), up to rounding.                        *)
(***************************************************************************)
C1_BoundsIsShapeBox ==
    PositiveShape =>
        /\ Close(SelfBounds.min.x, FSub(Self.pos.x, Self.radiusV.x), ShapeScale, 50)
        /\ Close(SelfBounds.min.y, FSub(Self.pos.y, Self.radiusV.y), ShapeScale, 50)
        /\ Close(SelfBounds.max.x, FAdd(Self.pos.x, Self.radiusV.x), ShapeScale, 50)
        /\ Close(SelfBounds.max.y, FAdd(Self.pos.y, Self.radiusV.y), ShapeScale, 50)
        /\ Close(FSub(SelfBounds.max.x, SelfBounds.min.x), SW, ShapeScale, 50)
        /\ Close(FSub(SelfBounds.max.y, SelfBounds.min.y), SH, ShapeScale, 50)

(***************************************************************************)
(* C2: a point that contains reports as inside an ellipse of positive      *)
(* width and height lies inside the rectangle getBounds() returns.         *)
(***************************************************************************)
C2_ContainedPointInsideBounds ==
    (/\ last.op = "contains"
     /\ last.result
     /\ FLt(Zero(0), Self.radiusV.x)
     /\ FLt(Zero(0), Self.radiusV.y)) =>
        /\ FLe(SelfBounds.min.x, last.args[1])
        /\ FLe(last.args[1], SelfBounds.max.x)
        /\ FLe(SelfBounds.min.y, last.args[2])
        /\ FLe(last.args[2], SelfBounds.max.y)

(***************************************************************************)
(* C3, as claimed: after setShape with any w and h (positive, zero or      *)
(* negative), ratio.x <= 1 and ratio.y <= 1 and one of them is exactly 1.  *)
(***************************************************************************)
RatioAtMostOne ==
    /\ FLe(Self.ratio.x, One)
    /\ FLe(Self.ratio.y, One)
    /\ (FEq(Self.ratio.x, One) \/ FEq(Self.ratio.y, One))

RadiusIsMaxHalf ==
    LET d == FMul(Self.radius, Two)
    IN  /\ FEq(d, SW) \/ FEq(d, SH)
        /\ FLe(SW, d)
        /\ FLe(SH, d)

DerivedFromRatio ==
    /\ Same(Self.radiusV.x, FMul(Self.radius, Self.ratio.x))
    /\ Same(Self.radiusV.y, FMul(Self.radius, Self.ratio.y))
    /\ Same(Self.radiusSq.x, FMul(FMul(Self.radius, Self.radius), Self.ratio.x))
    /\ Same(Self.radiusSq.y, FMul(FMul(Self.radius, Self.radius), Self.ratio.y))

C5_SemiAxesExact ==
    PositiveShape =>
        /\ FEq(FMul(Self.radiusV.x, Two), SW)
        /\ FEq(FMul(Self.radiusV.y, Two), SH)
        /\ DerivedFromRatio
        /\ FEq(Self.radiusSq.x, FMul(Self.radius, FDiv(SW, Two)))
        /\ FEq(Self.radiusSq.y, FMul(Self.radius, FDiv(SH, Two)))

(***************************************************************************)
(* C5, amended: after setShape with w, h > 0 and no overflow or underflow  *)
(* (w/2, h/2, ratio, radius^2 and radiusSq are normal doubles: finite and  *)
(* at least 2^-1022), radiusV.x * 2 is w and radiusV.y * 2 is h within a   *)
(* relative error of 2^-51, and exactly so on the larger of the two;       *)
(* radiusV is radius * ratio and radiusSq is radius^2 * ratio in double    *)
(* arithmetic, which is (radius * w/2, radius * h/2) within a relative     *)
(* error of 2^-51.                                                         *)
(***************************************************************************)
\* a positive normal double
Normal(a) == IsFinite(a) /\ FLe(Num(0, <<1>>, -1022), a)

\* no overflow, no underflow in setShape
InRange ==
    /\ Normal(FDiv(SW, Two))
    /\ Normal(FDiv(SH, Two))
    /\ Normal(Self.ratio.x)
    /\ Normal(Self.ratio.y)
    /\ Normal(FMul(Self.radius, Self.radius))
    /\ Normal(Self.radiusSq.x)
    /\ Normal(Self.radiusSq.y)

C5_SemiAxesWithinTolerance ==
    (PositiveShape /\ FiniteShape /\ InRange) =>
        /\ Close(FMul(Self.radiusV.x, Two), SW, Mag(SW), 51)
        /\ Close(FMul(Self.radiusV.y, Two), SH, Mag(SH), 51)
        /\ FLe(SH, SW) => FEq(FMul(Self.radiusV.x, Two), SW)
        /\ FLe(SW, SH) => FEq(FMul(Self.radiusV.y, Two), SH)
        /\ DerivedFromRatio
        /\ Close(Self.radiusSq.x, FMul(Self.radius, FDiv(SW, Two)),
                 Mag(Self.radiusSq.x), 51)
        /\ Close(Self.radiusSq.y, FMul(Self.radius, FDiv(SH, Two)),
                 Mag(Self.radiusSq.y), 51)

\* a shape whose smaller semi-axis is rounded: radiusV.x * 2 is not w
C5_Witness ==
    /\ PositiveShape
    /\ FiniteShape
    /\ InRange
    /\ ~FEq(FMul(Self.radiusV.x, Two), SW)
    /\ FEq(FMul(Self.radiusV.y, Two), SH)

(***************************************************************************)
(* C6, as claimed: translate(dx, dy) followed by translate(-dx, -dy), the  *)
(* offset given as two numbers or as a vector, restores pos and both       *)
(* corners of the bounds to exactly the values before the first call.      *)
(***************************************************************************)
\* the last two calls were translate(d) and translate(-d) on one instance
RoundTrip ==
    /\ last.op = "translate"
    /\ prev.op = "translate"
    /\ prev.who = last.who
    /\ FEq(last.args[1], FNeg(prev.args[1]))
    /\ FEq(last.args[2], FNeg(prev.args[2]))

\* the instance and its bounds before the first of the two calls
Before == prev.pre[1]

BoundsBefore == prev.pre[2]

C6_RoundTripExact ==
    RoundTrip =>
        /\ SameVec(Self.pos, Before.pos)
        /\ SameBounds(SelfBounds, BoundsBefore)

(***************************************************************************)
(* C6, amended: translate(dx, dy) followed by translate(-dx, -dy), in      *)
(* either form, restores every coordinate c of pos and of the bounds       *)
(* corners to within 2^-51 * (|c| + |d|) of its value before the first     *)
(* call (d the offset on that axis), and exactly when the sum c + d of the *)
(* first call is not rounded (as with integer coordinates and offsets),    *)
(* provided no sum overflows.                                              *)
(***************************************************************************)
\* coordinate `now` is `was` moved by d and back
Restored(now, was, d) ==
    /\ Close(now, was, MagAdd(Mag(was), Mag(d)), 51)
    /\ SumIsExact(was, d) => Same(now, was)

C6_RoundTripWithinTolerance ==
    RoundTrip =>
        LET dx == prev.args[1]
            dy == prev.args[2]
        IN  /\ Restored(Self.pos.x, Before.pos.x, dx)
            /\ Restored(Self.pos.y, Before.pos.y, dy)
            /\ Restored(SelfBounds.min.x, BoundsBefore.min.x, dx)
            /\ Restored(SelfBounds.min.y, BoundsBefore.min.y, dy)
            /\ Restored(SelfBounds.max.x, BoundsBefore.max.x, dx)
            /\ Restored(SelfBounds.max.y, BoundsBefore.max.y, dy)

\* a round trip, once with two numbers and once with a vector, that moved
\* the ellipse back but left a corner of the bounds off by a rounding error
C6_Witness ==
    /\ RoundTrip
    /\ prev.form # last.form
    /\ SameVec(Self.pos, Before.pos)
    /\ ~FEq(Self.pos.x, last.pre[1].pos.x)
    /\ ~Same(SelfBounds.min.x, BoundsBefore.min.x)

(***************************************************************************)
(* C7, as claimed: translate(dx, dy) moves pos and both corners of the     *)
(* bounds by (dx, dy), so that the size of the bounds and the offset from  *)
(* its top-left corner to pos are unchanged, and it leaves radius, ratio,  *)
(* radiusV and radiusSq unchanged.                                         *)
(***************************************************************************)
Translated == last.op = "translate"

\* the instance and its bounds before the last call
Was == last.pre[1]

BoundsWas == last.pre[2]

\* pos and the corners are the old ones plus the offset, the sums as
\* computed; nothing else changed
MovedBy(dx, dy) ==
    /\ Same(Self.pos.x, FAdd(Was.pos.x, dx))
    /\ Same(Self.pos.y, FAdd(Was.pos.y, dy))
    /\ Same(SelfBounds.min.x, FAdd(BoundsWas.min.x, dx))
    /\ Same(SelfBounds.min.y, FAdd(BoundsWas.min.y, dy))
    /\ Same(SelfBounds.max.x, FAdd(BoundsWas.max.x, dx))
    /\ Same(SelfBounds.max.y, FAdd(BoundsWas.max.y, dy))
    /\ Self.bounds = Was.bounds
    /\ Self.radius = Was.radius
    /\ Self.ratio = Was.ratio
    /\ Self.radiusV = Was.radiusV
    /\ Self.radiusSq = Was.radiusSq

C7_TranslateKeepsSizeAndOffset ==
    Translated =>
        /\ MovedBy(last.args[1], last.args[2])
        /\ Same(FSub(SelfBounds.max.x, SelfBounds.min.x),
                FSub(BoundsWas.max.x, BoundsWas.min.x))
        /\ Same(FSub(SelfBounds.max.y, SelfBounds.min.y),
                FSub(BoundsWas.max.y, BoundsWas.min.y))
        /\ Same(FSub(Self.pos.x, SelfBounds.min.x), FSub(Was.pos.x, BoundsWas.min.x))
        /\ Same(FSub(Self.pos.y, SelfBounds.min.y), FSub(Was.pos.y, BoundsWas.min.y))

(***************************************************************************)
(* C7, amended: translate(dx, dy) adds (dx, dy) to pos and to both corners *)
(* of the bounds, each sum rounded on its own, and leaves radius, ratio,   *)
(* radiusV, radiusSq and the bounds instance unchanged; the size of the    *)
(* bounds and the offset from its top-left corner to pos are unchanged     *)
(* within 2^-51 * (|pos| + |min| + |max| + |d|) on each axis, and exactly  *)
(* when none of the three sums on that axis is rounded, provided no sum    *)
(* overflows.                                                              *)
(***************************************************************************)
\* on one axis: p, lo, hi are pos and the bounds' corners before, p2, lo2,
\* hi2 after the translation by d
AxisKept(p, lo, hi, p2, lo2, hi2, d) ==
    LET scale == MagAdd(MagAdd(Mag(p), Mag(d)), MagAdd(Mag(lo), Mag(hi)))
        exact == SumIsExact(p, d) /\ SumIsExact(lo, d) /\ SumIsExact(hi, d)
    IN  /\ Close(FSub(hi2, lo2), FSub(hi, lo), scale, 51)
        /\ Close(FSub(p2, lo2), FSub(p, lo), scale, 51)
        /\ exact => /\ Same(FSub(hi2, lo2), FSub(hi, lo))
                    /\ Same(FSub(p2, lo2), FSub(p, lo))

C7_TranslateKeepsSizeAndOffsetWithinTolerance ==
    Translated =>
        /\ MovedBy(last.args[1], last.args[2])
        /\ AxisKept(Was.pos.x, BoundsWas.min.x, BoundsWas.max.x,
                    Self.pos.x, SelfBounds.min.x, SelfBounds.max.x, last.args[1])
        /\ AxisKept(Was.pos.y, BoundsWas.min.y, BoundsWas.max.y,
                    Self.pos.y, SelfBounds.min.y, SelfBounds.max.y, last.args[2])

\* a translation that rounded a corner: the offset from the top-left
\* corner to pos changed
C7_Witness ==
    /\ Translated
    /\ FEq(Self.pos.x, FAdd(Was.pos.x, last.args[1]))
    /\ ~FEq(Self.pos.x, Was.pos.x)
    /\ ~Same(FSub(Self.pos.x, SelfBounds.min.x), FSub(Was.pos.x, BoundsWas.min.x))
    /\ Same(FSub(Self.pos.y, SelfBounds.min.y), FSub(Was.pos.y, BoundsWas.min.y))

(***************************************************************************)
(* C8: clone() makes a new Ellipse with the pos and the full width and     *)
(* height (2 * radiusV) of the original and a bounds instance of its own,  *)
(* pulled from the pool; from then on a call on one instance leaves every  *)
(* field and the bounds of every other instance unchanged.                 *)
(***************************************************************************)
ClonedAlike ==
    last.op = "clone" =>
        /\ SameVec(Self.pos, ell[last.src].pos)
        /\ Same(FMul(Self.radiusV.x, Two), FMul(ell[last.src].radiusV.x, Two))
        /\ Same(FMul(Self.radiusV.y, Two), FMul(ell[last.src].radiusV.y, Two))

OwnBounds ==
    \A i \in DOMAIN ell :
        /\ ell[i].bounds \in 1..Len(heap)
        /\ pulls[ell[i].bounds] = i
        /\ \A j \in DOMAIN ell : j # i => ell[j].bounds # ell[i].bounds

OthersUntouched ==
    \A j \in DOMAIN ell :
        j # last'.who => /\ ell'[j] = ell[j]
                         /\ heap'[ell[j].bounds] = heap[ell[j].bounds]

C8_CloneIsIndependent ==
    /\ [](ClonedAlike /\ OwnBounds)
    /\ [][OthersUntouched]_vars

\* a clone that was moved away from its original
C8_Witness ==
    /\ Cardinality(DOMAIN ell) = 2
    /\ last.op = "translate"
    /\ last.who = 2
    /\ ~SameVec(ell[1].pos, ell[2].pos)
    /\ ~SameBounds(heap[ell[1].bounds], heap[ell[2].bounds])

(***************************************************************************)
(* C9, as claimed: on an ellipse with w, h > 0 and with positive factors,  *)
(* scale(sx, sy) keeps pos, makes radiusV (old radiusV.x * sx,             *)
(* old radiusV.y * sy) - so that scale(a) then scale(b) is scale(a * b) -, *)
(* takes a missing sy for sx, and leaves the bounds with its top-left      *)
(* corner at pos - radiusV; scaleV(v) is scale(v.x, v.y).                  *)
(***************************************************************************)
Scaled ==
    /\ last.op \in {"scale", "scaleV"}
    /\ FLt(Zero(0), Was.radiusV.x)
    /\ FLt(Zero(0), Was.radiusV.y)
    /\ \A n \in 1..Len(last.args) : FLt(Zero(0), last.args[n])

FactorX(call) == call.args[1]

FactorY(call) == IF Len(call.args) >= 2 THEN call.args[2] ELSE call.args[1]

\* the instance e with bounds b, after scale(args): <<instance, bounds>>
ScaledFrom(e, b, args) ==
    LET W == [ell |-> <<[e EXCEPT !.bounds = 1]>>, heap |-> <<b>>, pulls |-> <<1>>]
        R == Scale(W, 1, args)
    IN  <<R.ell[1], R.heap[1]>>

\* the last two calls were scale or scaleV, with positive factors, on one
\* instance
ScaledTwice ==
    /\ Scaled
    /\ prev.op \in {"scale", "scaleV"}
    /\ prev.who = last.who
    /\ FLt(Zero(0), Before.radiusV.x)
    /\ FLt(Zero(0), Before.radiusV.y)

\* what scale(a * b) makes of the instance before the two calls
ScaledAtOnce ==
    ScaledFrom(Before, BoundsBefore,
               <<FMul(FactorX(prev), FactorX(last)), FMul(FactorY(prev), FactorY(last))>>)

\* pos kept, the bounds' top-left corner at pos - radiusV, and scaleV(v)
\* the same as scale(v.x, v.y)
ScaleKeepsCentre ==
    /\ SameVec(Self.pos, Was.pos)
    /\ Same(SelfBounds.min.x, FSub(Self.pos.x, Self.radiusV.x))
    /\ Same(SelfBounds.min.y, FSub(Self.pos.y, Self.radiusV.y))
    /\ last.op = "scaleV" =>
           LET r == ScaledFrom(Was, BoundsWas, <<last.args[1], last.args[2]>>)
           IN  /\ r[1] = [Self EXCEPT !.bounds = 1]
               /\ r[2] = SelfBounds

\* scale(2) on Ellipse(0, 0, 4, 2): width and height (8, 4), top-left (-4, -2)
ScaleExample ==
    (/\ last.op = "scale"
     /\ last.args = <<Two>>
     /\ Was.pos = Vec(Zero(0), Zero(0))
     /\ Was.radiusV = Vec(Two, One)) =>
        /\ FEq(FMul(Self.radiusV.x, Two), FromInt(8))
        /\ FEq(FMul(Self.radiusV.y, Two), FromInt(4))
        /\ FEq(SelfBounds.min.x, FromInt(-4))
        /\ FEq(SelfBounds.min.y, FromInt(-2))

C9_ScaleExact ==
    /\ Scaled =>
        /\ ScaleKeepsCentre
        /\ FEq(Self.radiusV.x, FMul(Was.radiusV.x, FactorX(last)))
        /\ FEq(Self.radiusV.y, FMul(Was.radiusV.y, FactorY(last)))
        /\ ScaleExample
    /\ ScaledTwice =>
        /\ SameVec(Self.radiusV, ScaledAtOnce[1].radiusV)
        /\ SameBounds(SelfBounds, ScaledAtOnce[2])

(***************************************************************************)
(* C9, amended: on an ellipse with w, h > 0 and with positive factors,     *)
(* barring overflow and underflow, scale(sx, sy) keeps pos and makes       *)
(* radiusV (old radiusV.x * sx, old radiusV.y * sy) within a relative      *)
(* error of 2^-51, exactly on the larger of the two - so that scale(a)     *)
(* then scale(b) is scale(a * b) within a relative error of 2^-49 -,       *)
(* takes a missing sy for sx, and leaves the bounds with its top-left      *)
(* corner at pos - radiusV; scale(2) on Ellipse(0, 0, 4, 2) gives exactly  *)
(* (8, 4) and (-4, -2); scaleV(v) is scale(v.x, v.y).                      *)
(***************************************************************************)
C9_ScaleWithinTolerance ==
    /\ (Scaled /\ InRange) =>
        LET nx == FMul(Was.radiusV.x, FactorX(last))
            ny == FMul(Was.radiusV.y, FactorY(last))
        IN  /\ ScaleKeepsCentre
            /\ Close(Self.radiusV.x, nx, Mag(nx), 51)
            /\ Close(Self.radiusV.y, ny, Mag(ny), 51)
            /\ FLe(ny, nx) => FEq(Self.radiusV.x, nx)
            /\ FLe(nx, ny) => FEq(Self.radiusV.y, ny)
            /\ ScaleExample
    /\ (ScaledTwice /\ InRange /\ Normal(Was.ratio.x) /\ Normal(Was.ratio.y)) =>
        /\ Close(Self.radiusV.x, ScaledAtOnce[1].radiusV.x,
                 Mag(ScaledAtOnce[1].radiusV.x), 49)
        /\ Close(Self.radiusV.y, ScaledAtOnce[1].radiusV.y,
                 Mag(ScaledAtOnce[1].radiusV.y), 49)
        /\ SameVec(Self.pos, ScaledAtOnce[1].pos)

\* two scalings in a row, the second with one factor only, whose result is
\* not the one of a single scaling by the product
C9_Witness ==
    /\ ScaledTwice
    /\ InRange
    /\ Len(last.args) = 1
    /\ ~SameVec(Self.radiusV, ScaledAtOnce[1].radiusV)
    /\ ~FEq(Self.radiusV.x, FMul(Was.radiusV.x, FactorX(last)))

(***************************************************************************)
(* C10: the bounds is created once and cached: over any sequence of calls  *)
(* on an Ellipse, pool.pull("Bounds") is called exactly once for it, by    *)
(* the constructor; getBounds() and every other method keep that instance, *)
(* and no instance is ever taken back from the Ellipse.                    *)
(***************************************************************************)
PulledOnce ==
    \A i \in DOMAIN ell :
        /\ Cardinality({n \in 1..Len(pulls) : pulls[n] = i}) = 1
        /\ ell[i].bounds \in 1..Len(pulls)
        /\ pulls[ell[i].bounds] = i
        /\ Len(heap) = Len(pulls)

BoundsKept ==
    /\ \A i \in DOMAIN ell : i \in DOMAIN ell' /\ ell'[i].bounds = ell[i].bounds
    /\ Len(pulls') >= Len(pulls)
    /\ SubSeq(pulls', 1, Len(pulls)) = pulls

C10_BoundsPulledOnce ==
    /\ []PulledOnce
    /\ [][BoundsKept]_vars

\* getBounds() called after the ellipse was moved: still the one instance
C10_Witness ==
    /\ last.op = "getBounds"
    /\ prev.op = "translate"
    /\ prev.who = last.who
    /\ Len(pulls) = 1
    /\ ell[last.who].bounds = 1

====
